---- MODULE Spec2Model ----
(***************************************************************************)
(* Model of the intake gateway's upload pipeline:                          *)
(*   routers/upload.py        parse_form_data, upload_file                 *)
(*   services/upload_service  _validate_file, _create_upload_info,         *)
(*                            process_upload                               *)
(*   services/volume_service  naming, folder creation, blob and sidecar    *)
(*                            writes                                       *)
(*   models/upload_models     field validation                             *)
(*                                                                         *)
(* Python strings are sequences of one-character strings, so that split,   *)
(* rsplit, strip, lower and the regular expressions are computed the way   *)
(* the code computes them.                                                 *)
(*                                                                         *)
(* The volume is shared by every worker process of the application, and    *)
(* nothing in the code serialises the storage calls of different requests, *)
(* so in Spec the requests interleave at each storage call.  Within one    *)
(* event loop process_upload does not yield between its storage calls;     *)
(* those runs are among the behaviours of SerialSpec, in which no request  *)
(* overlaps another.  SoloSpec is one request alone over a wider range of  *)
(* inputs.                                                                 *)
(***************************************************************************)
EXTENDS Integers, Sequences, FiniteSets, TLC

(* ------------------------------ characters ---------------------------- *)

UpperChars ==
  <<"A","B","C","D","E","F","G","H","I","J","K","L","M",
    "N","O","P","Q","R","S","T","U","V","W","X","Y","Z">>

LowerChars ==
  <<"a","b","c","d","e","f","g","h","i","j","k","l","m",
    "n","o","p","q","r","s","t","u","v","w","x","y","z">>

DigitChars == <<"0","1","2","3","4","5","6","7","8","9">>

Range(s) == { s[i] : i \in 1..Len(s) }

IsUpper(c) == c \in Range(UpperChars)

IsLetter(c) == c \in Range(UpperChars) \cup Range(LowerChars)

IsDigit(c) == c \in Range(DigitChars)

\* \s of Python's re on str
IsSpace(c) == c \in {" ", "\t", "\n", "\r"}

\* \w of Python's re on str, restricted to ASCII
IsWordChar(c) == IsLetter(c) \/ IsDigit(c) \/ c = "_"

LowerChar(c) ==
  IF IsUpper(c)
    THEN LowerChars[CHOOSE i \in 1..Len(UpperChars) : UpperChars[i] = c]
    ELSE c

\* str.lower()
Lower(s) == [ i \in 1..Len(s) |-> LowerChar(s[i]) ]

(* ------------------------------ str methods --------------------------- *)

\* index of the last occurrence of c in s, 0 when there is none
LastIndexOf(s, c) ==
  IF \E i \in 1..Len(s) : s[i] = c
    THEN CHOOSE i \in 1..Len(s) :
           s[i] = c /\ \A j \in (i+1)..Len(s) : s[j] # c
    ELSE 0

\* s.rsplit(c, 1): one or two parts
RSplit1(s, c) ==
  LET i == LastIndexOf(s, c)
  IN  IF i = 0 THEN << s >>
      ELSE << SubSeq(s, 1, i - 1), SubSeq(s, i + 1, Len(s)) >>

\* s.split(c)[-1]: the text after the last c, the whole of s when there is none
SplitLast(s, c) == SubSeq(s, LastIndexOf(s, c) + 1, Len(s))

\* s.strip()
Strip(s) ==
  IF \A i \in 1..Len(s) : IsSpace(s[i]) THEN << >>
  ELSE LET a == CHOOSE i \in 1..Len(s) :
                  ~IsSpace(s[i]) /\ \A j \in 1..(i-1) : IsSpace(s[j])
           b == CHOOSE i \in 1..Len(s) :
                  ~IsSpace(s[i]) /\ \A j \in (i+1)..Len(s) : IsSpace(s[j])
       IN  SubSeq(s, a, b)

IsKept(c) == IsWordChar(c) \/ IsSpace(c) \/ c = "-"

\* re.sub(r'[^\w\s-]', '', s)
DropSpecial(s) == SelectSeq(s, IsKept)

IsSep(c) == c = "-" \/ IsSpace(c)

\* a run of separators, marked: '-' at its first character, nothing after
RunMarks(s) ==
  [i \in 1..Len(s) |->
     IF ~IsSep(s[i]) THEN s[i]
     ELSE IF i > 1 /\ IsSep(s[i-1]) THEN "" ELSE "-"]

IsMarked(c) == c # ""

\* every separator replaced on its own, runs not collapsed
CollapseSepsEach(s) == [i \in 1..Len(s) |-> IF IsSep(s[i]) THEN "-" ELSE s[i]]

\* re.sub(r'[-\s]+', '-', s)
CollapseSeps(s) == SelectSeq(RunMarks(s), IsMarked)

\* VolumeService._sanitize_folder_name
SanitizeFolderName(name) == Lower(CollapseSeps(Strip(DropSpecial(name))))

(* ------------------------------ configuration ------------------------ *)

\* MAX_FILE_SIZE_MB, default
MaxFileSizeMB == 100

\* UploadService.max_file_size, in bytes
MaxFileSize == MaxFileSizeMB * 1024 * 1024

\* UploadService.allowed_types, default 'csv,json,pdf,xlsx,txt'.split(',')
AllowedTypes ==
  { <<"c","s","v">>, <<"j","s","o","n">>, <<"p","d","f">>, <<"x","l","s","x">>, <<"t","x","t">> }

\* the values of the WorkflowType enumeration
WorkflowType ==
  { <<"c","s","v">>, <<"j","s","o","n">>, <<"p","d","f">>, <<"x","l","s","x">>, <<"t","x","t">> }

\* VolumeService.volume_path, default
VolumePath == 
  <<"/","V","o","l","u","m","e","s","/","j","m","r","_","d","e","m","o","/",
    "i","n","t","a","k","e","/","s","t","o","r","a","g","e">>

\* max_length of ResearchMetadata.project_name
ProjectNameMaxLength == 200

(* ------------------------------ the clock ----------------------------- *)

\* The clock counts the seconds since 2024-01-01T00:00:00 (UTC); the model
\* stays within January 2024.
SecondsPerDay == 86400

TwoDigits(n) == << DigitChars[(n \div 10) + 1], DigitChars[(n % 10) + 1] >>

DayOfMonth(t) == (t \div SecondsPerDay) + 1

\* datetime.strftime('%Y-%m-%d')
FormatDate(t) == <<"2","0","2","4","-","0","1","-">> \o TwoDigits(DayOfMonth(t))

\* datetime.strftime('%Y%m%d_%H%M%S')
FormatTimestamp(t) ==
  LET s == t % SecondsPerDay
  IN  <<"2","0","2","4","0","1">> \o TwoDigits(DayOfMonth(t)) \o << "_" >>
        \o TwoDigits(s \div 3600) \o TwoDigits((s % 3600) \div 60)
        \o TwoDigits(s % 60)

(* ------------------------------ validation ---------------------------- *)

\* a character of the class [a-zA-Z0-9\s\-_]
IsProjectNameChar(c) ==
  IsLetter(c) \/ IsDigit(c) \/ IsSpace(c) \/ c = "-" \/ c = "_"

\* re.match(r'^[a-zA-Z0-9\s\-_]+$', v)
MatchesProjectNamePattern(v) ==
  Len(v) >= 1 /\ \A i \in 1..Len(v) : IsProjectNameChar(v[i])

\* ResearchMetadata.project_name: the Field bounds, then validate_project_name
\* raises or not
ProjectNameAccepted(v) ==
  /\ Len(v) >= 1
  /\ Len(v) <= ProjectNameMaxLength
  /\ MatchesProjectNamePattern(v)

\* the value validate_project_name returns for an accepted name
ValidatedProjectName(v) == Strip(v)

\* exceptions: the class and, for an HTTPException, its status_code
NoError == [type |-> "none", status |-> 0]

HTTPException(code) == [type |-> "HTTPException", status |-> code]

ValidationError == [type |-> "ValidationError", status |-> 0]

StorageError == [type |-> "Exception", status |-> 0]

\* file.size is None or an integer: << >> or << n >>
SizeTruthy(size) == size # << >> /\ size[1] # 0

\* file.size or 0
SizeOrZero(size) == IF size = << >> THEN 0 ELSE size[1]

\* file.filename.split('.')[-1].lower()
FileExtension(filename) == Lower(SplitLast(filename, "."))

\* the size check with the ceiling itself refused
ValidateFileBelowCeiling(filename, size) ==
  IF SizeTruthy(size) /\ size[1] >= MaxFileSize
    THEN HTTPException(413)
    ELSE IF filename # << >> /\ FileExtension(filename) \notin AllowedTypes
           THEN HTTPException(400)
           ELSE NoError

\* UploadService._validate_file: the exception raised, NoError when it returns
ValidateFile(filename, size) ==
  IF SizeTruthy(size) /\ size[1] > MaxFileSize
    THEN HTTPException(413)
    ELSE IF filename # << >> /\ FileExtension(filename) \notin AllowedTypes
           THEN HTTPException(400)
           ELSE NoError

\* UploadInfo.file_size_bytes: Field(..., gt=0)
UploadInfoAccepted(file_size_bytes) == file_size_bytes > 0

(* ------------------------------ naming -------------------------------- *)

\* file.filename or 'unknown'
FilenameOrUnknown(filename) == IF filename = << >> THEN <<"u","n","k","n","o","w","n">> ELSE filename

\* the stored name without the extension of the original
GenerateFilenameBare(original_filename, workflow_type, t) ==
  RSplit1(original_filename, ".")[1] \o << "_" >> \o workflow_type
    \o << "_" >> \o FormatTimestamp(t)

\* VolumeService._generate_filename, utcnow() = t
GenerateFilename(original_filename, workflow_type, t) ==
  LET name_parts == RSplit1(original_filename, ".")
      base_name  == name_parts[1]
      extension  == IF Len(name_parts) > 1 THEN name_parts[2] ELSE << >>
      new_name   == base_name \o << "_" >> \o workflow_type \o << "_" >>
                      \o FormatTimestamp(t)
  IN  IF extension # << >> THEN new_name \o << "." >> \o extension
      ELSE new_name

\* VolumeService._get_project_folder_path, utcnow() = t
GetProjectFolderPath(project_name, t) ==
  VolumePath \o << "/" >> \o SanitizeFolderName(project_name)
    \o << "/" >> \o FormatDate(t)

\* VolumeService.upload_file: full_file_path
FullFilePath(folder_path, stored_filename) ==
  folder_path \o << "/" >> \o stored_filename

\* the sidecar named after the text before the first '.' of the file name
MetadataPathFirstDot(file_path) ==
  LET path_parts  == RSplit1(file_path, "/")
      folder_path == path_parts[1]
      filename    == path_parts[2]
      first       == IF \E i \in 1..Len(filename) : filename[i] = "."
                       THEN CHOOSE i \in 1..Len(filename) :
                              /\ filename[i] = "."
                              /\ \A j \in 1..(i-1) : filename[j] # "."
                       ELSE Len(filename) + 1
      base_name   == SubSeq(filename, 1, first - 1)
  IN  folder_path \o << "/" >> \o <<"m","e","t","a","d","a","t","a","_">> \o base_name \o <<".","j","s","o","n">>

\* VolumeService.save_metadata: metadata_path
MetadataPath(file_path) ==
  LET path_parts  == RSplit1(file_path, "/")
      folder_path == path_parts[1]
      filename    == path_parts[2]
      name_parts  == RSplit1(filename, ".")
      base_name   == name_parts[1]
  IN  folder_path \o << "/" >> \o <<"m","e","t","a","d","a","t","a","_">> \o base_name \o <<".","j","s","o","n">>

(* ------------------------------ bounds and inputs --------------------- *)

\* number of upload requests in one behaviour
NumUploads == 2

\* number of seconds the clock advances in one behaviour
MaxTicks == 1

Uploads == 1..NumUploads

\* the clock starts one second before midnight of 2024-01-01
ClockStart == SecondsPerDay - 1

\* Inputs of a single request (SoloSpec).
\* file names sent with the multipart body (<< >>: no file name)
FileNames ==
  { <<"a",".","c","s","v">>, <<"a",".","t","x","t">>, <<"c","s","v">>,
    <<"d","/","a",".","b",".","C","S","V">>, <<"a">>,
    <<"a",".">>, <<"T","X","T">>, <<"a",".","b",".","c","s","v">>,
    <<".","c","s","v">>, <<"a",".","e","x","e">>, << >> }

\* file.size as reported (<< >>: None)
FileSizes ==
  { << >>, << 0 >>, << 10 >>, << MaxFileSize >>, << MaxFileSize + 1 >> }

\* project_name form values
ProjectNames ==
  { <<"A"," ","b">>, <<"a","/">>, << " " >>, << " ", " " >>,
    <<" ","a","-","_","B"," ">>, <<"a","\t","-"," ","b">>, <<"a","$","b">> }

\* workflow_type form values, the last one outside the enumeration
FormWorkflowTypes == { <<"c","s","v">>, <<"t","x","t">>, <<"e","x","e">> }

\* Inputs of the concurrent requests (Spec): all of them pass validation.
RaceFileNames == { <<"a",".","c","s","v">>, <<"a",".","t","x","t">> }

RaceFileSizes == { << 10 >> }

RaceProjectNames == { <<"A"," ","b">> }

RaceWorkflowTypes == { <<"c","s","v">> }

(* ------------------------------ state --------------------------------- *)

VARIABLES
  pc,      \* pc[u]: the step request u has reached
  req,     \* req[u]: the file and the validated form of request u
  loc,     \* loc[u]: the values process_upload has computed so far
  resp,    \* resp[u]: what leaves the router for request u
  clock,   \* datetime.utcnow(), in seconds
  dirs,    \* the store: folders that exist
  files,   \* the store: path -> content
  ops      \* ops[u]: the storage calls request u has issued, in order

vars == << pc, req, loc, resp, clock, dirs, files, ops >>

NoReq ==
  [filename |-> << >>, size |-> << >>, project_name |-> << >>,
   workflow_type |-> << >>]

NoUploadInfo ==
  [timestamp |-> 0, uploader |-> 0, original_filename |-> << >>,
   stored_filename |-> << >>, file_path |-> << >>, file_size_bytes |-> 0,
   file_format |-> << >>]

NoLoc ==
  [folder_path |-> << >>, named_at |-> 0, stored_filename |-> << >>,
   file_path |-> << >>, upload_info |-> NoUploadInfo, metadata_path |-> << >>]

NoResp ==
  [kind |-> "none", status |-> 0, raised |-> NoError,
   upload_info |-> NoUploadInfo, metadata_file_path |-> << >>]

Init ==
  /\ pc = [u \in Uploads |-> "idle"]
  /\ req = [u \in Uploads |-> NoReq]
  /\ loc = [u \in Uploads |-> NoLoc]
  /\ resp = [u \in Uploads |-> NoResp]
  /\ clock = ClockStart
  /\ dirs = {}
  /\ files = << >>
  /\ ops = [u \in Uploads |-> << >>]

(* ------------------------------ the store ----------------------------- *)

\* an upload that leaves an existing file as it is
WriteFileKeepExisting(fs, path, content) ==
  [p \in (DOMAIN fs) \cup {path} |-> IF p \in DOMAIN fs THEN fs[p] ELSE content]

\* client.files.upload(path, content, overwrite=True)
WriteFile(fs, path, content) ==
  [p \in (DOMAIN fs) \cup {path} |-> IF p = path THEN content ELSE fs[p]]

\* client.files.create_directory(path)
CreateDirectory(ds, path) == ds \cup {path}

\* a handler that deletes the blob when a later step fails
AfterFailureRollback(fs, path) ==
  [p \in (DOMAIN fs) \ {path} |-> fs[p]]

\* the store after a step of the pipeline has failed, path being the blob's:
\* the handlers of process_upload only re-raise
AfterFailure(fs, path) == fs

Issued(u, op, ok) ==
  ops' = [ops EXCEPT ![u] = Append(@, [op |-> op, ok |-> ok])]

(* ------------------------------ errors -------------------------------- *)

\* process_upload: except HTTPException: raise / except Exception: 500
ProcessUploadRaises(e) ==
  IF e.type = "HTTPException" THEN e ELSE HTTPException(500)

\* upload_file of the router: except Exception as e: HTTPException(500)
RouterRaises(e) == HTTPException(500)

\* request u ends with the exception e raised inside process_upload
Fail(u, e) ==
  /\ pc' = [pc EXCEPT ![u] = "done"]
  /\ resp' = [resp EXCEPT ![u] =
       [NoResp EXCEPT !.kind = "error",
                      !.status = RouterRaises(ProcessUploadRaises(e)).status,
                      !.raised = e]]

(* ------------------------------ the pipeline -------------------------- *)

\* parse_form_data: the form becomes ResearchMetadata and TechnicalMetadata,
\* or the request ends before upload_file of the router runs (the status of
\* that answer is the framework's and is not modelled)
ParseFormDataFrom(u, names, sizes, projects, types) ==
  /\ pc[u] = "idle"
  /\ \E fn \in names, sz \in sizes, pn \in projects, wt \in types :
       IF wt \in WorkflowType /\ ProjectNameAccepted(pn)
         THEN /\ pc' = [pc EXCEPT ![u] = "received"]
              /\ req' = [req EXCEPT ![u] =
                   [filename |-> fn, size |-> sz,
                    project_name |-> ValidatedProjectName(pn),
                    workflow_type |-> wt]]
              /\ resp' = resp
         ELSE /\ pc' = [pc EXCEPT ![u] = "done"]
              /\ req' = [req EXCEPT ![u] =
                   [filename |-> fn, size |-> sz, project_name |-> pn,
                    workflow_type |-> wt]]
              /\ resp' = [resp EXCEPT ![u] =
                   [NoResp EXCEPT !.kind = "error", !.raised = ValidationError]]
  /\ UNCHANGED << loc, clock, dirs, files, ops >>

\* the concurrent requests are numbered in the order of their arrival
ParseFormData(u) ==
  /\ \A v \in Uploads : v < u => pc[v] # "idle"
  /\ ParseFormDataFrom(u, RaceFileNames, RaceFileSizes, RaceProjectNames,
                       RaceWorkflowTypes)

SoloParseFormData ==
  ParseFormDataFrom(1, FileNames, FileSizes, ProjectNames, FormWorkflowTypes)

\* process_upload: self._validate_file(file), then the file is read
Validate(u) ==
  /\ pc[u] = "received"
  /\ LET e == ValidateFile(req[u].filename, req[u].size)
     IN  IF e = NoError
           THEN pc' = [pc EXCEPT ![u] = "validated"] /\ resp' = resp
           ELSE Fail(u, e)
  /\ UNCHANGED << req, loc, clock, dirs, files, ops >>

\* VolumeService.create_project_folder, called first by upload_file
CreateProjectFolder(u) ==
  /\ pc[u] = "validated"
  /\ LET folder_path == GetProjectFolderPath(req[u].project_name, clock)
     IN  \/ \* created
            /\ dirs' = CreateDirectory(dirs, folder_path)
            /\ Issued(u, "create_directory", TRUE)
            /\ loc' = [loc EXCEPT ![u].folder_path = folder_path]
            /\ pc' = [pc EXCEPT ![u] = "folder"]
            /\ resp' = resp
         \/ \* "already exists" is raised and swallowed
            /\ folder_path \in dirs
            /\ dirs' = dirs
            /\ Issued(u, "create_directory", TRUE)
            /\ loc' = [loc EXCEPT ![u].folder_path = folder_path]
            /\ pc' = [pc EXCEPT ![u] = "folder"]
            /\ resp' = resp
         \/ \* any other failure of the store
            /\ dirs' = dirs
            /\ Issued(u, "create_directory", FALSE)
            /\ loc' = loc
            /\ Fail(u, StorageError)
  /\ UNCHANGED << req, clock, files >>

\* a blob write issued without the folder step having returned
FolderEnsuredOrSkipped(u) == pc[u] \in {"validated", "folder"}

\* VolumeService.upload_file: create_project_folder has returned
FolderEnsured(u) == pc[u] = "folder"

\* VolumeService.upload_file after the folder: the name, then the blob
UploadFile(u) ==
  /\ FolderEnsured(u)
  /\ LET stored_filename ==
           GenerateFilename(FilenameOrUnknown(req[u].filename),
                            req[u].workflow_type, clock)
         full_file_path == FullFilePath(loc[u].folder_path, stored_filename)
     IN  \/ /\ files' = WriteFile(files, full_file_path,
                                 [kind |-> "blob", writer |-> u])
            /\ Issued(u, "upload_blob", TRUE)
            /\ loc' = [loc EXCEPT ![u].named_at = clock,
                                  ![u].stored_filename = stored_filename,
                                  ![u].file_path = full_file_path]
            /\ pc' = [pc EXCEPT ![u] = "blob"]
            /\ resp' = resp
         \/ /\ files' = AfterFailure(files, full_file_path)
            /\ Issued(u, "upload_blob", FALSE)
            /\ loc' = loc
            /\ Fail(u, StorageError)
  /\ UNCHANGED << req, clock, dirs >>

\* UploadService._create_upload_info, utcnow() = t
CreateUploadInfo(u, t) ==
  [timestamp |-> t, uploader |-> u,
   original_filename |-> FilenameOrUnknown(req[u].filename),
   stored_filename |-> loc[u].stored_filename,
   file_path |-> loc[u].file_path,
   file_size_bytes |-> SizeOrZero(req[u].size),
   file_format |-> IF req[u].filename = << >> THEN << >>
                   ELSE FileExtension(req[u].filename)]

\* process_upload: UploadInfo and UploadMetadata are built, then save_metadata
SaveMetadata(u) ==
  /\ pc[u] = "blob"
  /\ LET upload_info == CreateUploadInfo(u, clock)
         metadata_path == MetadataPath(loc[u].file_path)
     IN  IF ~UploadInfoAccepted(upload_info.file_size_bytes)
           THEN /\ files' = AfterFailure(files, loc[u].file_path)
                /\ ops' = ops
                /\ loc' = loc
                /\ Fail(u, ValidationError)
           ELSE \/ /\ files' = WriteFile(files, metadata_path,
                        [kind |-> "sidecar", writer |-> u,
                         upload_info |-> upload_info,
                         workflow_type |-> req[u].workflow_type,
                         project_name |-> req[u].project_name])
                   /\ Issued(u, "upload_sidecar", TRUE)
                   /\ loc' = [loc EXCEPT ![u].upload_info = upload_info,
                                         ![u].metadata_path = metadata_path]
                   /\ pc' = [pc EXCEPT ![u] = "sidecar"]
                   /\ resp' = resp
                \/ /\ files' = AfterFailure(files, loc[u].file_path)
                   /\ Issued(u, "upload_sidecar", FALSE)
                   /\ loc' = loc
                   /\ Fail(u, StorageError)
  /\ UNCHANGED << req, clock, dirs >>

\* process_upload returns FileUploadResponse and the router returns it
Respond(u) ==
  /\ pc[u] = "sidecar"
  /\ pc' = [pc EXCEPT ![u] = "done"]
  /\ resp' = [resp EXCEPT ![u] =
       [NoResp EXCEPT !.kind = "success", !.status = 200,
                      !.upload_info = loc[u].upload_info,
                      !.metadata_file_path = loc[u].metadata_path]]
  /\ UNCHANGED << req, loc, clock, dirs, files, ops >>

\* time passes
Tick ==
  /\ clock < ClockStart + MaxTicks
  /\ clock' = clock + 1
  /\ UNCHANGED << pc, req, loc, resp, dirs, files, ops >>

Next ==
  \/ \E u \in Uploads : ParseFormData(u)
  \/ \E u \in Uploads : Validate(u)
  \/ \E u \in Uploads : CreateProjectFolder(u)
  \/ \E u \in Uploads : UploadFile(u)
  \/ \E u \in Uploads : SaveMetadata(u)
  \/ \E u \in Uploads : Respond(u)
  \/ Tick

Spec == Init /\ [][Next]_vars

\* one request alone, over the wide inputs
SoloNext ==
  \/ SoloParseFormData
  \/ Validate(1)
  \/ CreateProjectFolder(1)
  \/ UploadFile(1)
  \/ SaveMetadata(1)
  \/ Respond(1)
  \/ Tick

SoloSpec == Init /\ [][SoloNext]_vars

\* no other request is between its arrival and its answer
Alone(u) == \A v \in Uploads \ {u} : pc[v] \in {"idle", "done"}

\* the requests one after the other, none overlapping another
SerialNext ==
  \/ \E u \in Uploads : Alone(u) /\ ParseFormData(u)
  \/ \E u \in Uploads : Alone(u) /\ Validate(u)
  \/ \E u \in Uploads : Alone(u) /\ CreateProjectFolder(u)
  \/ \E u \in Uploads : Alone(u) /\ UploadFile(u)
  \/ \E u \in Uploads : Alone(u) /\ SaveMetadata(u)
  \/ \E u \in Uploads : Alone(u) /\ Respond(u)
  \/ Tick

SerialSpec == Init /\ [][SerialNext]_vars

(* ------------------------------ vocabulary of the claims --------------- *)

Succeeded(u) == pc[u] = "done" /\ resp[u].kind = "success"

Failed(u) == pc[u] = "done" /\ resp[u].kind = "error"

RejectedBySize(u) == Failed(u) /\ resp[u].raised = HTTPException(413)

RejectedByType(u) == Failed(u) /\ resp[u].raised = HTTPException(400)

RejectedByValidation(u) == Failed(u) /\ resp[u].raised = ValidationError

StorageFailed(u) == Failed(u) /\ resp[u].raised = StorageError

OpNames(u) == [i \in 1..Len(ops[u]) |-> ops[u][i].op]

IsPrefix(s, t) == Len(s) <= Len(t) /\ s = SubSeq(t, 1, Len(s))

StorageOrder == << "create_directory", "upload_blob", "upload_sidecar" >>

(* ------------------------------ C1 ------------------------------------ *)

\* C1: a file rejected by the size check leaves the router with status 413,
\* a file rejected by the type check with status 400, and only a storage
\* failure leaves it with status 500.
C1_StatusOfRejection ==
  \A u \in Uploads :
    /\ RejectedBySize(u) => resp[u].status = 413
    /\ RejectedByType(u) => resp[u].status = 400
    /\ (Failed(u) /\ resp[u].status = 500) => StorageFailed(u)

(* ------------------------------ C2 ------------------------------------ *)

\* C2: a request that ends in a validation error (of ResearchMetadata,
\* TechnicalMetadata or UploadInfo) or in a file-policy error has performed
\* no storage operation: no folder created, no blob and no sidecar written.
C2_NoSideEffects ==
  \A u \in Uploads :
    (RejectedByValidation(u) \/ RejectedBySize(u) \/ RejectedByType(u))
      => /\ ops[u] = << >>
         /\ dirs = {}
         /\ files = << >>

(* ------------------------------ C3 ------------------------------------ *)

\* C3: the storage calls of one upload are issued in the order folder, blob,
\* sidecar, each only after the one before it has succeeded and none before
\* the file has passed validation; a success response is returned only after
\* the sidecar write has completed.
C3_StepOrder ==
  \A u \in Uploads :
    /\ IsPrefix(OpNames(u), StorageOrder)
    /\ \A i \in 1..(Len(ops[u]) - 1) : ops[u][i].ok
    /\ ops[u] # << >> =>
         ValidateFile(req[u].filename, req[u].size) = NoError
    /\ pc[u] = "sidecar" \/ Succeeded(u) =>
         /\ Len(ops[u]) = 3
         /\ \A i \in 1..3 : ops[u][i].ok
         /\ loc[u].metadata_path \in DOMAIN files

\* C3 witness: an upload has answered with success after its three storage
\* calls.
C3_Witness ==
  \E u \in Uploads :
    Succeeded(u) /\ OpNames(u) = StorageOrder /\ resp[u].status = 200

(* ------------------------------ C4 ------------------------------------ *)

\* the step in which request u ends with a storage failure
StorageFailureStep(u) ==
  pc[u] # "done" /\ pc'[u] = "done" /\ resp'[u].raised = StorageError

\* C4: a storage failure at folder-ensure, blob-write or sidecar-write ends
\* the upload with status 500 at the failed call, the request issues no
\* further call, and the failing step leaves the store as it was: what the
\* completed steps wrote stays, and nothing is added.
C4_FailureState ==
  \A u \in Uploads :
    StorageFailed(u) =>
      /\ resp[u].status = 500
      /\ ops[u] # << >>
      /\ ~ops[u][Len(ops[u])].ok
      /\ \A i \in 1..(Len(ops[u]) - 1) : ops[u][i].ok

C4_FailureStep ==
  \A u \in Uploads :
    /\ StorageFailureStep(u) => (files' = files /\ dirs' = dirs)
    /\ pc[u] = "done" =>
         (pc'[u] = "done" /\ ops'[u] = ops[u] /\ resp'[u] = resp[u])

\* C4: C4_FailureState holds in every state and C4_FailureStep of every step.
C4_StorageFailureAborts == []C4_FailureState /\ [][C4_FailureStep]_vars

\* C4 witness: the sidecar write failed after the blob write, the blob is in
\* the store and the sidecar is not.
C4_Witness ==
  \E u \in Uploads :
    /\ StorageFailed(u)
    /\ OpNames(u) = StorageOrder
    /\ loc[u].file_path \in DOMAIN files
    /\ files[loc[u].file_path] = [kind |-> "blob", writer |-> u]
    /\ \A p \in DOMAIN files : files[p].kind = "blob"

(* ------------------------------ C5 ------------------------------------ *)

HasChar(s, c) == \E i \in 1..Len(s) : s[i] = c

\* the position of the last c in s (s holds c)
LastPos(s, c) ==
  LET at == { i \in 1..Len(s) : s[i] = c }
  IN  CHOOSE i \in at : \A j \in at : j <= i

\* the folder and the name of the file at path p: p = folder / name, the
\* name holding no '/'
FolderOf(p) == SubSeq(p, 1, LastPos(p, "/") - 1)

NameOf(p) == SubSeq(p, LastPos(p, "/") + 1, Len(p))

\* a file name with its extension removed; the whole name when it has none
WithoutExtension(name) ==
  IF HasChar(name, ".") THEN SubSeq(name, 1, LastPos(name, ".") - 1)
  ELSE name

SidecarNameFor(name) ==
  <<"m","e","t","a","d","a","t","a","_">> \o WithoutExtension(name) \o <<".","j","s","o","n">>

\* C5: for every successful upload the sidecar has been written in the folder
\* of the stored file under the name metadata_{stored_base}.json, stored_base
\* being the stored file's name without its extension (the whole name when it
\* has none); the response's metadata_file_path is that path and lies in the
\* folder of upload_info.file_path.  The stored file's folder and name are the
\* two parts of upload_info.file_path at its last '/'; they are the project
\* folder and stored_filename whenever stored_filename holds no '/'.
C5_SidecarBesideFile ==
  \A u \in Uploads :
    Succeeded(u) =>
      LET ui   == resp[u].upload_info
          mp   == resp[u].metadata_file_path
          dir  == FolderOf(ui.file_path)
          name == NameOf(ui.file_path)
      IN  /\ mp \in DOMAIN files
          /\ files[mp].kind = "sidecar"
          /\ mp = dir \o << "/" >> \o SidecarNameFor(name)
          /\ FolderOf(mp) = dir
          /\ ui.file_path = loc[u].folder_path \o << "/" >> \o ui.stored_filename
          /\ ~HasChar(ui.stored_filename, "/") =>
               (dir = loc[u].folder_path /\ name = ui.stored_filename)

\* C5 witness: a successful upload whose stored filename has no extension and
\* whose sidecar is in the store.
C5_Witness ==
  \E u \in Uploads :
    /\ Succeeded(u)
    /\ ~HasChar(resp[u].upload_info.stored_filename, ".")
    /\ resp[u].metadata_file_path \in DOMAIN files

(* ------------------------------ C6 ------------------------------------ *)

\* request u has got past _validate_file
PassedFileCheck(u) ==
  \/ pc[u] \in {"validated", "folder", "blob", "sidecar"}
  \/ pc[u] = "done" /\ ops[u] # << >>

\* the extension as the claim has it: the lowercase text after the last '.',
\* empty when the file name holds no '.'
ExtensionOrEmpty(filename) ==
  IF HasChar(filename, ".")
    THEN Lower(SubSeq(filename, LastPos(filename, ".") + 1, Len(filename)))
    ELSE << >>

\* C6: the type check rejects every file whose extension (the lowercase text
\* after the last '.', empty when the name holds no '.') is not in the
\* allow-list: a named file that got past the check has an allowed extension.
C6_TypeCheck ==
  \A u \in Uploads :
    (PassedFileCheck(u) /\ req[u].filename # << >>)
      => ExtensionOrEmpty(req[u].filename) \in AllowedTypes

(* ------------------------------ C7 ------------------------------------ *)

\* the form of request u was rejected by parse_form_data
ParseRejected(u) == RejectedByValidation(u) /\ ops[u] = << >>

FormAccepted(u) == pc[u] # "idle" /\ ~ParseRejected(u)

\* C7: every accepted project name is stored trimmed and non-empty and holds
\* only letters, digits, space, hyphen and underscore.
C7_ProjectName ==
  \A u \in Uploads :
    FormAccepted(u) =>
      LET v == req[u].project_name
      IN  /\ v # << >>
          /\ \A i \in 1..Len(v) :
               IsLetter(v[i]) \/ IsDigit(v[i]) \/ v[i] \in {" ", "-", "_"}
          /\ ~IsSpace(v[1])
          /\ ~IsSpace(v[Len(v)])

(* ------------------------------ C8 ------------------------------------ *)

\* the date segment of a project folder: 'YYYY-MM-DD'
DateSegment(folder_path) == NameOf(folder_path)

\* the 'YYYYMMDD_HHMMSS' part of a stored filename
StampOf(stored_filename) ==
  LET b == WithoutExtension(stored_filename)
  IN  SubSeq(b, Len(b) - 14, Len(b))

BlobWritten(u) == loc[u].file_path # << >>

SameRace(u, v) ==
  /\ u # v
  /\ BlobWritten(u) /\ BlobWritten(v)
  /\ req[u].project_name = req[v].project_name
  /\ req[u].filename = req[v].filename
  /\ req[u].workflow_type = req[v].workflow_type
  /\ DateSegment(loc[u].folder_path) = DateSegment(loc[v].folder_path)
  /\ StampOf(loc[u].stored_filename) = StampOf(loc[v].stored_filename)

BlobWriteStep(u) == pc[u] = "folder" /\ pc'[u] = "blob"

\* C8: two uploads of the same project, date, file name and workflow type in
\* the same second compute the same stored path; a request fails only by a
\* failure of one of its own storage calls; every blob write leaves its own
\* content at its path and a stored blob changes only by a blob write to its
\* path, so the content left is that of the last write.
C8_SamePath ==
  /\ \A u, v \in Uploads :
       SameRace(u, v) => loc[u].file_path = loc[v].file_path
  /\ \A u \in Uploads :
       Failed(u) => (StorageFailed(u) /\ ~ops[u][Len(ops[u])].ok)

C8_LastWriteStep ==
  /\ \A u \in Uploads :
       BlobWriteStep(u) =>
         /\ loc'[u].file_path \in DOMAIN files'
         /\ files'[loc'[u].file_path] = [kind |-> "blob", writer |-> u]
  /\ \A p \in DOMAIN files :
       /\ p \in DOMAIN files'
       /\ (files[p].kind = "blob" /\ files'[p] # files[p]) =>
            \E u \in Uploads : BlobWriteStep(u) /\ loc'[u].file_path = p

AllCompletedSuccessfully ==
  /\ \A u \in Uploads : pc[u] \in {"idle", "done"}
  /\ \A u \in Uploads : pc[u] = "done" => Succeeded(u)

SidecarPathOf(p) == FolderOf(p) \o << "/" >> \o SidecarNameFor(NameOf(p))

\* C9: once all uploads have completed successfully, every stored blob and
\* the sidecar named after it in its folder were written by the same upload,
\* and the sidecar's upload_info is about that blob.
C9_BlobAndSidecarAgree ==
  AllCompletedSuccessfully =>
    \A p \in DOMAIN files :
      files[p].kind = "blob" =>
        /\ SidecarPathOf(p) \in DOMAIN files
        /\ files[SidecarPathOf(p)].kind = "sidecar"
        /\ files[SidecarPathOf(p)].writer = files[p].writer
        /\ files[SidecarPathOf(p)].upload_info.file_path = p

(* ------------------------------ C10 ----------------------------------- *)

\* C10: the date segment YYYY-MM-DD of the folder and the YYYYMMDD part of
\* the stored filename's timestamp denote the same day.
C10_SameDay ==
  \A u \in Uploads :
    BlobWritten(u) =>
      SelectSeq(DateSegment(loc[u].folder_path), IsDigit)
        = SubSeq(StampOf(loc[u].stored_filename), 1, 8)

(* ------------------------------ project names ------------------------- *)

\* the longest project name enumerated character by character
MaxNameLen == 4

\* the characters the enumerated project names are made of: a lower-case and
\* an upper-case letter, a digit, the three other characters of the claimed
\* charset, and one character outside it
NameChars == { "a", "B", "1", " ", "-", "_", "/" }

\* a name of n letters
LettersOnly(n) == [i \in 1..n |-> "A"]

\* project_name form values: every name of at most MaxNameLen characters
\* (the empty one included), and the names at and just over max_length
NameInputs ==
  UNION { [1..n -> NameChars] : n \in 0..MaxNameLen }
    \cup { LettersOnly(ProjectNameMaxLength),
           LettersOnly(ProjectNameMaxLength + 1) }

\* one request with a valid file, over the project names
NameParseFormData ==
  ParseFormDataFrom(1, { <<"a",".","c","s","v">> }, { << 10 >> }, NameInputs,
                    { <<"c","s","v">> })

\* the request up to its folder: validation, then the sanitized folder path
NameNext ==
  \/ NameParseFormData
  \/ Validate(1)
  \/ CreateProjectFolder(1)

NameSpec == Init /\ [][NameNext]_vars

\* only letters, digits, space, hyphen and underscore
OnlyNamedChars(v) ==
  \A i \in 1..Len(v) :
    IsLetter(v[i]) \/ IsDigit(v[i]) \/ v[i] \in {" ", "-", "_"}

\* the folder path of request u has been computed
FolderComputed(u) == loc[u].folder_path # << >>

\* the segment of the folder path the sanitizer produced: the one before the
\* date
FolderSegment(u) == NameOf(FolderOf(loc[u].folder_path))

LowercaseNoDoubleHyphen(seg) ==
  /\ \A i \in 1..Len(seg) : ~IsUpper(seg[i])
  /\ \A i \in 1..(Len(seg) - 1) : ~(seg[i] = "-" /\ seg[i+1] = "-")

\* C11 as stated: every project name of the allowed charset (letters, digits,
\* space, hyphen, underscore) passes validation, and the folder segment the
\* sanitizer makes of the validated name is lowercase and holds no two
\* consecutive hyphens.
C11_EveryAllowedName ==
  \A u \in Uploads :
    /\ ParseRejected(u) => ~OnlyNamedChars(req[u].project_name)
    /\ (FormAccepted(u) /\ FolderComputed(u)
          /\ OnlyNamedChars(req[u].project_name))
         => LowercaseNoDoubleHyphen(FolderSegment(u))

\* C11, amended: every project name of 1 to 200 characters of the allowed
\* charset passes validation, and the folder segment the sanitizer makes of
\* the validated name is lowercase and holds no two consecutive hyphens.
C11_SanitizedFolder ==
  \A u \in Uploads :
    /\ ParseRejected(u) =>
         ~(/\ OnlyNamedChars(req[u].project_name)
           /\ Len(req[u].project_name) \in 1..ProjectNameMaxLength)
    /\ (FormAccepted(u) /\ FolderComputed(u)
          /\ OnlyNamedChars(req[u].project_name))
         => LowercaseNoDoubleHyphen(FolderSegment(u))

\* a validated name with an upper-case letter and two separators in a row has
\* got its folder
C11_Witness ==
  \E u \in Uploads :
    LET v == req[u].project_name
    IN  /\ pc[u] = "folder"
        /\ OnlyNamedChars(v)
        /\ \E i \in 1..Len(v) : IsUpper(v[i])
        /\ \E i \in 1..(Len(v) - 1) :
             v[i] \in {" ", "-"} /\ v[i+1] \in {" ", "-"}

(* ------------------------------ file sizes ---------------------------- *)

\* how far from the ceiling the enumerated sizes go, in bytes
MaxOver == 2

\* file.size as reported: none, zero, and the sizes around the ceiling
SizeInputs ==
  { << >>, << 0 >> } \cup { << MaxFileSize + d >> : d \in (0 - MaxOver)..MaxOver }

\* one request with a valid form, over the file names and the sizes
SizeParseFormData ==
  ParseFormDataFrom(1, FileNames, SizeInputs, { <<"A"," ","b">> },
                    { <<"c","s","v">> })

\* the request from its arrival to its answer, the clock standing still
SizeNext ==
  \/ SizeParseFormData
  \/ Validate(1)
  \/ CreateProjectFolder(1)
  \/ UploadFile(1)
  \/ SaveMetadata(1)
  \/ Respond(1)

SizeSpec == Init /\ [][SizeNext]_vars

\* the configured megabytes times 1024 times 1024
ByteCeiling == MaxFileSizeMB * 1024 * 1024

SizeReported(u) == pc[u] # "idle" /\ req[u].size # << >>

\* C12: the size check lets a file through whose reported size is exactly the
\* byte ceiling (configured megabytes * 1024 * 1024), and a file whose reported
\* size is one byte or more over it is refused with the size error (413) once
\* the check has run, no storage call having been issued.
C12_SizeCeiling ==
  \A u \in Uploads :
    SizeReported(u) =>
      /\ req[u].size[1] = ByteCeiling => ~RejectedBySize(u)
      /\ req[u].size[1] >= ByteCeiling + 1 =>
           \/ pc[u] = "received"
           \/ RejectedBySize(u) /\ ops[u] = << >>

\* a file of exactly the ceiling has been stored and answered, its size
\* recorded
C12_Witness ==
  \E u \in Uploads :
    /\ SizeReported(u)
    /\ req[u].size[1] = ByteCeiling
    /\ Succeeded(u)
    /\ resp[u].upload_info.file_size_bytes = ByteCeiling

(* ------------------------------ stored names -------------------------- *)

\* file names as a user has them before any upload (<< >>: no file name)
PlainFileNames ==
  { <<"a",".","c","s","v">>, <<"a",".","t","x","t">>, <<"a",".","C","S","V">>,
    <<"a","_","c","s","v",".","c","s","v">>,
    <<"a","_","t","x","t",".","c","s","v">>,
    <<"a",".","b",".","c","s","v">>, <<"c","s","v">>,
    <<"u","n","k","n","o","w","n">>, << >> }

\* workflow_type form values of the two uploads
PairWorkflowTypes == { <<"c","s","v">>, <<"t","x","t">> }

\* file names of the two uploads: the plain ones, and the names an earlier
\* upload of a plain one was stored under
PairFileNames ==
  PlainFileNames \cup
    { GenerateFilename(FilenameOrUnknown(fn), wt, ClockStart) :
        fn \in PlainFileNames, wt \in PairWorkflowTypes }

\* the two uploads
Pair == { 1, 2 }

PairParseFormData(u) ==
  ParseFormDataFrom(u, PairFileNames, { << 10 >> }, { <<"A"," ","b">> },
                    PairWorkflowTypes)

\* the other upload has not arrived, or has its blob written, or has ended
OtherSettled(u) ==
  \A v \in Pair \ {u} : pc[v] \in {"idle", "blob", "done"}

\* two uploads one after the other, each up to its blob
PairNext ==
  \/ \E u \in Pair : OtherSettled(u) /\ PairParseFormData(u)
  \/ \E u \in Pair : OtherSettled(u) /\ Validate(u)
  \/ \E u \in Pair : OtherSettled(u) /\ CreateProjectFolder(u)
  \/ \E u \in Pair : OtherSettled(u) /\ UploadFile(u)
  \/ Tick

PairSpec == Init /\ [][PairNext]_vars

\* both uploads passed the type check and have their stored name
BothStored(u, v) == u # v /\ BlobWritten(u) /\ BlobWritten(v)

SameStoredName(u, v) == loc[u].stored_filename = loc[v].stored_filename

\* C13: two uploads whose original filenames passed the file type check have
\* equal stored filenames only if their original filename, their workflow type
\* and the second at which they were named are all equal; the same holds of
\* their full paths, so one overwrites the other only in that case.
C13_StoredNamesInjective ==
  \A u, v \in Uploads :
    (BothStored(u, v)
       /\ (SameStoredName(u, v) \/ loc[u].file_path = loc[v].file_path))
      => /\ req[u].filename = req[v].filename
         /\ req[u].workflow_type = req[v].workflow_type
         /\ loc[u].named_at = loc[v].named_at

\* two uploads got the same stored name, and the later one has overwritten
\* the earlier one's blob
C13_Witness ==
  \E u, v \in Uploads :
    /\ BothStored(u, v)
    /\ SameStoredName(u, v)
    /\ loc[u].file_path = loc[v].file_path
    /\ files[loc[u].file_path].writer = v

====
